---- MODULE Spec2Model ----
(***************************************************************************)
(* Model of ctypeparser (src/main.rs): the walk over the declaration tree  *)
(* of one translation unit, the four extractors, and the final             *)
(* serialisation of the collected types to standard output.                *)
(*                                                                         *)
(* Option<T> is modelled as a sequence of length at most one: <<>> is      *)
(* None and <<x>> is Some(x).                                              *)
(***************************************************************************)
EXTENDS Integers, Sequences, FiniteSets, TLC

VARIABLES ast, pending, types, origin, seen, pc, stdout

vars == <<ast, pending, types, origin, seen, pc, stdout>>

(* ---------------- bounds ---------------- *)

\* longest list of top-level declarations of the translation unit
MaxTop == 3

\* width of the enumerator value in the model; the program's i64/u64 pair
\* is scaled down to ValueBits bits (two's complement)
ValueBits == 3

(* ---------------- Option ---------------- *)

None == <<>>
Some(x) == <<x>>
is_some(o) == o # <<>>
unwrap(o) == o[1]
unwrap_or(o, d) == IF is_some(o) THEN o[1] ELSE d

RECURSIVE Pow2(_)
Pow2(n) == IF n = 0 THEN 1 ELSE 2 * Pow2(n - 1)

\* the signed reading of a ValueBits-bit pattern
ToSigned(u) == IF u >= Pow2(ValueBits - 1) THEN u - Pow2(ValueBits) ELSE u

\* bit patterns an enumerator may carry
RawValues == {0, 1, Pow2(ValueBits - 1), Pow2(ValueBits) - 1}

(* ---------------- the AST Provider's tree ---------------- *)

Root == 0

Node(k, n, t, m, c, d, r) ==
    [kind |-> k, name |-> n, type |-> t, inMain |-> m,
     children |-> c, definition |-> d, raw |-> r]

Field(n, t) == Node("FieldDecl", n, Some(t), TRUE, <<>>, None, 0)

\* top-level declarations a translation unit may be assembled from
TopCandidates == {1, 2, 3, 4, 5, 6, 7, 8, 9, 11, 13, 15, 17, 18, 19, 20}

NodeIds == 0 .. 37

\* The declarations of the catalogue, as the AST Provider reports them for
\* the C text given with each.
Catalogue(top, raw) == [n \in NodeIds |->
    CASE n = 0  -> Node("TranslationUnit", Some("main.c"), None, TRUE, top, None, 0)
      \* typedef int T;
      [] n = 1  -> Node("TypedefDecl", Some("T"), Some("int"), TRUE, <<>>, Some(1), 0)
      \* a type alias the provider reports without a name
      [] n = 2  -> Node("TypedefDecl", None, Some("int"), TRUE, <<>>, Some(2), 0)
      \* struct S { int a; char b; };
      [] n = 3  -> Node("StructDecl", Some("S"), Some("struct S"), TRUE, <<21, 22>>, Some(3), 0)
      \* struct S;
      [] n = 4  -> Node("StructDecl", Some("S"), Some("struct S"), TRUE, <<>>, Some(3), 0)
      \* struct S;   (in an included header)
      [] n = 5  -> Node("StructDecl", Some("S"), Some("struct S"), FALSE, <<>>, Some(3), 0)
      \* struct H { int h; };   (in an included header)
      [] n = 6  -> Node("StructDecl", Some("H"), Some("struct H"), FALSE, <<23>>, Some(6), 0)
      \* struct H;
      [] n = 7  -> Node("StructDecl", Some("H"), Some("struct H"), TRUE, <<>>, Some(6), 0)
      \* struct { int x; };
      [] n = 8  -> Node("StructDecl", None, Some("struct (unnamed)"), TRUE, <<24>>, Some(8), 0)
      \* typedef struct { int a; char b; } P;
      [] n = 9  -> Node("TypedefDecl", Some("P"), Some("struct P"), TRUE, <<10>>, Some(9), 0)
      [] n = 10 -> Node("StructDecl", None, Some("P"), TRUE, <<25, 26>>, Some(10), 0)
      \* namespace ns { struct N { int n; }; }
      [] n = 11 -> Node("Namespace", Some("ns"), None, TRUE, <<12>>, Some(11), 0)
      [] n = 12 -> Node("StructDecl", Some("N"), Some("ns::N"), TRUE, <<27>>, Some(12), 0)
      \* struct O { struct { int y; } inner; };
      [] n = 13 -> Node("StructDecl", Some("O"), Some("struct O"), TRUE, <<14, 28>>, Some(13), 0)
      [] n = 14 -> Node("StructDecl", None, Some("struct (unnamed)"), TRUE, <<29>>, Some(14), 0)
      \* union U { struct B { int z; } b; };
      [] n = 15 -> Node("UnionDecl", Some("U"), Some("union U"), TRUE, <<16, 30>>, Some(15), 0)
      [] n = 16 -> Node("StructDecl", Some("B"), Some("struct B"), TRUE, <<31>>, Some(16), 0)
      \* enum E { RED, HIGH = <raw> };
      [] n = 17 -> Node("EnumDecl", Some("E"), Some("enum E"), TRUE, <<32, 33>>, Some(17), 0)
      \* struct F { int x; int : 3; };
      [] n = 18 -> Node("StructDecl", Some("F"), Some("struct F"), TRUE, <<34, 35>>, Some(18), 0)
      \* enum { ANON };
      [] n = 19 -> Node("EnumDecl", None, Some("enum (unnamed)"), TRUE, <<36>>, Some(19), 0)
      \* union { int w; };
      [] n = 20 -> Node("UnionDecl", None, Some("union (unnamed)"), TRUE, <<37>>, Some(20), 0)
      [] n = 21 -> Field(Some("a"), "int")
      [] n = 22 -> Field(Some("b"), "char")
      [] n = 23 -> Node("FieldDecl", Some("h"), Some("int"), FALSE, <<>>, None, 0)
      [] n = 24 -> Field(Some("x"), "int")
      [] n = 25 -> Field(Some("a"), "int")
      [] n = 26 -> Field(Some("b"), "char")
      [] n = 27 -> Field(Some("n"), "int")
      [] n = 28 -> Field(Some("inner"), "struct (unnamed)")
      [] n = 29 -> Field(Some("y"), "int")
      [] n = 30 -> Field(Some("b"), "struct B")
      [] n = 31 -> Field(Some("z"), "int")
      [] n = 32 -> Node("EnumConstantDecl", Some("RED"), Some("int"), TRUE, <<>>, None, 0)
      [] n = 33 -> Node("EnumConstantDecl", Some("HIGH"), Some("int"), TRUE, <<>>, None, raw)
      [] n = 34 -> Field(Some("x"), "int")
      [] n = 35 -> Field(None, "int")
      [] n = 36 -> Node("EnumConstantDecl", Some("ANON"), Some("int"), TRUE, <<>>, None, 0)
      [] n = 37 -> Field(Some("w"), "int")]

SeqsUpTo(S, n) == UNION {[1 .. k -> S] : k \in 0 .. n}

InSeq(x, s) == \E i \in DOMAIN s : s[i] = x

\* lists of distinct top-level declarations; a declaration whose definition
\* is another top-level declaration comes with that definition
TopLists == {s \in SeqsUpTo(TopCandidates, MaxTop) :
    /\ \A i, j \in DOMAIN s : i # j => s[i] # s[j]
    /\ \A i \in DOMAIN s :
         LET d == Catalogue(<<>>, 0)[s[i]].definition[1]
         IN  d # s[i] => InSeq(d, s)}

(* ---------------- the clang Entity interface ---------------- *)

get_kind(e) == ast[e].kind
get_name_of(e) == ast[e].name
get_type(e) == ast[e].type
get_children(e) == ast[e].children
get_definition(e) == ast[e].definition
is_in_main_file(e) == ast[e].inMain

\* (i64, u64): the same bits read signed and unsigned
get_enum_constant_value(e) ==
    IF ast[e].kind = "EnumConstantDecl"
    THEN Some(<<ToSigned(ast[e].raw), ast[e].raw>>)
    ELSE None

(* ---------------- the extractors ---------------- *)

Ok(ts) == [panic |-> FALSE, types |-> ts]
Panic(ts) == [panic |-> TRUE, types |-> ts]

\* mutant of push: the new element goes to the front
push_front(v, x) == <<x>> \o v

push(v, x) == Append(v, x)

parse_typedef(entity, ts) ==
    IF get_name_of(entity) = None \/ get_type(entity) = None
    THEN Panic(ts)
    ELSE Ok(push(ts, [tag |-> "TypeDefType",
                      name |-> unwrap(get_name_of(entity)),
                      underlying |-> unwrap(get_type(entity))]))

get_name(entity, parent) ==
    IF is_some(get_name_of(entity))
    THEN get_name_of(entity)
    ELSE IF get_kind(parent) = "TypedefDecl"
         THEN get_name_of(parent)
         ELSE None

\* the closure mapped over every child of a struct or union
member_fields(entity) ==
    [i \in DOMAIN get_children(entity) |->
        [name  |-> unwrap(get_name_of(get_children(entity)[i])),
         type_ |-> unwrap(get_type(get_children(entity)[i]))]]

\* some unwrap() of the closure meets None
member_panics(entity) ==
    \E i \in DOMAIN get_children(entity) :
        \/ get_name_of(get_children(entity)[i]) = None
        \/ get_type(get_children(entity)[i]) = None

\* mutant of parse_struct: an entry is pushed whether or not a name was found
parse_struct_unguarded(entity, parent, ts) ==
    IF member_panics(entity)
    THEN Panic(ts)
    ELSE Ok(push(ts, [tag |-> "StructType",
                      name |-> unwrap_or(get_name(entity, parent), ""),
                      fields |-> member_fields(entity)]))

parse_struct(entity, parent, ts) ==
    IF is_some(get_name(entity, parent))
    THEN IF member_panics(entity)
         THEN Panic(ts)
         ELSE Ok(push(ts, [tag |-> "StructType",
                           name |-> unwrap(get_name(entity, parent)),
                           fields |-> member_fields(entity)]))
    ELSE Ok(ts)

\* mutant of enum_fields: the unsigned component of the value is recorded
enum_fields_unsigned(entity) ==
    [i \in DOMAIN get_children(entity) |->
        [name  |-> unwrap(get_name_of(get_children(entity)[i])),
         value |-> unwrap(get_enum_constant_value(get_children(entity)[i]))[2]]]

enum_fields(entity) ==
    [i \in DOMAIN get_children(entity) |->
        [name  |-> unwrap(get_name_of(get_children(entity)[i])),
         value |-> unwrap(get_enum_constant_value(get_children(entity)[i]))[1]]]

enum_panics(entity) ==
    \E i \in DOMAIN get_children(entity) :
        \/ get_enum_constant_value(get_children(entity)[i]) = None
        \/ get_name_of(get_children(entity)[i]) = None

parse_enum(entity, parent, ts) ==
    IF is_some(get_name(entity, parent))
    THEN IF enum_panics(entity)
         THEN Panic(ts)
         ELSE Ok(push(ts, [tag |-> "EnumType",
                           name |-> unwrap(get_name(entity, parent)),
                           fields |-> enum_fields(entity)]))
    ELSE Ok(ts)

parse_union(entity, parent, ts) ==
    IF is_some(get_name(entity, parent))
    THEN IF member_panics(entity)
         THEN Panic(ts)
         ELSE Ok(push(ts, [tag |-> "UnionType",
                           name |-> unwrap(get_name(entity, parent)),
                           fields |-> member_fields(entity)]))
    ELSE Ok(ts)

(* ---------------- the walk ---------------- *)

\* the entity the closure works on: the definition when there is one
resolve(entity) == unwrap_or(get_definition(entity), entity)

\* mutant of callback: the file-membership test is left out
callback_unfiltered(entity, parent, ts) ==
    LET e == resolve(entity)
        r == CASE get_kind(e) = "TypedefDecl" -> parse_typedef(e, ts)
               [] get_kind(e) = "StructDecl"  -> parse_struct(e, parent, ts)
               [] get_kind(e) = "EnumDecl"    -> parse_enum(e, parent, ts)
               [] get_kind(e) = "UnionDecl"   -> parse_union(e, parent, ts)
               [] OTHER -> Ok(ts)
    IN  [panic |-> r.panic, types |-> r.types, result |-> "Continue"]

\* the closure given to visit_children; it always answers Continue
callback(entity, parent, ts) ==
    LET e == resolve(entity)
        r == IF ~is_in_main_file(e) THEN Ok(ts)
             ELSE CASE get_kind(e) = "TypedefDecl" -> parse_typedef(e, ts)
                    [] get_kind(e) = "StructDecl"  -> parse_struct(e, parent, ts)
                    [] get_kind(e) = "EnumDecl"    -> parse_enum(e, parent, ts)
                    [] get_kind(e) = "UnionDecl"   -> parse_union(e, parent, ts)
                    [] OTHER -> Ok(ts)
    IN  [panic |-> r.panic, types |-> r.types, result |-> "Continue"]

\* the <<entity, parent>> pairs of the children of e, in order
child_visits(e) == [i \in DOMAIN get_children(e) |-> <<get_children(e)[i], e>>]

\* what visit_children does with the closure's answer: Recurse descends
\* into the children of the entity just visited, Continue goes on with its
\* next sibling, Break stops
visit_children(result, entity, rest) ==
    CASE result = "Recurse"  -> child_visits(entity) \o rest
      [] result = "Continue" -> rest
      [] OTHER -> <<>>

\* serde_json::to_string of Vec<Types>: each entry is an object with the
\* variant's name as its only key
to_string(ts) ==
    [i \in DOMAIN ts |->
        <<ts[i].tag, [f \in (DOMAIN ts[i]) \ {"tag"} |-> ts[i][f]]>>]

Init ==
    /\ \E top \in TopLists :
         \E raw \in (IF InSeq(17, top) THEN RawValues ELSE {0}) :
            /\ ast = Catalogue(top, raw)
            /\ pending = [i \in DOMAIN top |-> <<top[i], Root>>]
    /\ types = <<>>
    /\ origin = <<>>
    /\ seen = <<>>
    /\ pc = "visit"
    /\ stdout = <<>>

\* one call of the closure by visit_children; seen and origin are history
\* variables: the entities handed to the closure so far, and for each entry
\* of types the entity whose visit pushed it
Visit ==
    /\ pc = "visit"
    /\ pending # <<>>
    /\ seen' = Append(seen, Head(pending)[1])
    /\ LET entity == Head(pending)[1]
           parent == Head(pending)[2]
           r == callback(entity, parent, types)
       IN  IF r.panic
           THEN /\ pc' = "panicked"
                /\ UNCHANGED <<pending, types, origin>>
           ELSE /\ pc' = pc
                /\ pending' = visit_children(r.result, entity, Tail(pending))
                /\ types' = r.types
                /\ origin' = IF Len(r.types) > Len(types)
                             THEN push(origin, entity)
                             ELSE origin
    /\ UNCHANGED <<ast, stdout>>

\* mutant of Serialize: what has been collected is printed on the failure
\* path as well
SerializeAlways ==
    /\ pc \in {"visit", "panicked"}
    /\ pc = "visit" => pending = <<>>
    /\ stdout = <<>>
    /\ stdout' = Append(stdout, to_string(types))
    /\ pc' = IF pc = "visit" THEN "done" ELSE pc
    /\ UNCHANGED <<ast, pending, types, origin, seen>>

\* the walk is over: serialise and print
Serialize ==
    /\ pc = "visit"
    /\ pending = <<>>
    /\ stdout' = Append(stdout, to_string(types))
    /\ pc' = "done"
    /\ UNCHANGED <<ast, pending, types, origin, seen>>

Next == Visit \/ Serialize

Spec == Init /\ [][Next]_vars

TypeOK ==
    /\ pc \in {"visit", "done", "panicked"}
    /\ Len(origin) = Len(types)
    /\ Len(stdout) <= 1

(* ---------------- the tree, as the claims speak of it ---------------- *)

RECURSIVE PreOrder(_), PreOrderAll(_)
\* the nodes below and including n, depth-first and pre-order
PreOrder(n) == <<n>> \o PreOrderAll(get_children(n))
PreOrderAll(s) == IF s = <<>> THEN <<>> ELSE PreOrder(Head(s)) \o PreOrderAll(Tail(s))

Range(s) == {s[i] : i \in DOMAIN s}

\* every node reachable from the root, the root excluded
TreeNodes == Range(PreOrder(Root)) \ {Root}

ParentOf(n) == CHOOSE p \in TreeNodes \cup {Root} : InSeq(n, get_children(p))

Pos(n) == CHOOSE i \in DOMAIN PreOrder(Root) : PreOrder(Root)[i] = n

Aggregates == {"StructDecl", "EnumDecl", "UnionDecl"}

\* the positions of the entries of types that describe declaration d
EntriesFor(d) == {i \in DOMAIN types : resolve(origin[i]) = d}

\* the Field list the immediate field declarations of e amount to
FieldDeclsOf(e) ==
    LET fs == SelectSeq(get_children(e), LAMBDA c : get_kind(c) = "FieldDecl")
    IN  [i \in DOMAIN fs |-> [name |-> unwrap(get_name_of(fs[i])),
                              type_ |-> unwrap(get_type(fs[i]))]]

(* ---------------- claims ---------------- *)

\* C1: an aggregate that occurs in the target file as a forward declaration
\* and as its definition has, once the walk is over, exactly one entry, and
\* that entry carries the definition's member list.
C1_ForwardDeclaredOnce ==
    pc = "done" =>
        \A f, d \in TreeNodes :
            ( /\ f # d
              /\ get_definition(f) = Some(d)
              /\ get_kind(d) \in Aggregates
              /\ is_in_main_file(f) /\ is_in_main_file(d) )
            => /\ Cardinality(EntriesFor(d)) = 1
               /\ \A i \in EntriesFor(d) : types[i].fields = FieldDeclsOf(d)

\* C2: once the walk is over, an unnamed aggregate that is not the child of
\* a type alias has no entry, and an unnamed aggregate that is the child of
\* a type alias named Name has exactly one entry, named Name.
C2_AnonymousNaming ==
    pc = "done" =>
        \A n \in TreeNodes :
            ( /\ get_kind(n) \in Aggregates
              /\ get_name_of(n) = None
              /\ is_in_main_file(n) )
            => IF get_kind(ParentOf(n)) = "TypedefDecl"
               THEN /\ Cardinality(EntriesFor(n)) = 1
                    /\ \A i \in EntriesFor(n) :
                          types[i].name = unwrap(get_name_of(ParentOf(n)))
               ELSE EntriesFor(n) = {}

\* C3: once the walk is over, every node reachable from the root has been
\* handed to the closure, and a named struct of the target file that lies
\* inside a node of another kind has an entry.
C3_VisitsEveryNode ==
    pc = "done" =>
        /\ \A n \in TreeNodes : InSeq(n, seen)
        /\ \A n \in TreeNodes :
              ( /\ get_kind(n) = "StructDecl"
                /\ is_some(get_name_of(n))
                /\ is_in_main_file(n)
                /\ get_kind(ParentOf(n)) \notin Aggregates \cup {"TypedefDecl", "TranslationUnit"} )
              => EntriesFor(n) # {}

\* C4: the entries of the output stand in the order in which a depth-first,
\* pre-order walk of the tree meets the declarations they were pushed for,
\* and each entry is the one its declaration produces.
C4_EncounterOrder ==
    /\ \A i, j \in DOMAIN origin : i < j => Pos(origin[i]) < Pos(origin[j])
    /\ \A i \in DOMAIN origin :
          callback(origin[i], ParentOf(origin[i]), <<>>).types = <<types[i]>>

\* C4 witness: the walk is over, two entries were pushed and a declaration
\* between or around them pushed none.
C4_Witness ==
    /\ pc = "done"
    /\ Len(types) >= 2
    /\ Len(seen) > Len(types)

\* C5 as stated: no entry is pushed by the visit of a node that lies outside
\* the target file.
C5_HeaderNodeNeverEmits ==
    \A i \in DOMAIN origin : is_in_main_file(origin[i])

\* C5 amended: no entry is pushed by the visit of a node whose resolved node
\* (its definition when it has one, else the node itself) lies outside the
\* target file, whatever its kind.
C5_ResolvedHeaderNodeNeverEmits ==
    /\ \A i \in DOMAIN origin : is_in_main_file(resolve(origin[i]))
    /\ \A k \in DOMAIN seen :
          (pc # "panicked" \/ k < Len(seen)) /\ ~is_in_main_file(resolve(seen[k]))
          => ~InSeq(seen[k], origin)

\* C5 witness: a node that resolves outside the target file was visited, the
\* walk is over and the output holds entries of other nodes only.
C5_Witness ==
    /\ pc = "done"
    /\ types # <<>>
    /\ \E k \in DOMAIN seen :
          /\ ~is_in_main_file(resolve(seen[k]))
          /\ ~InSeq(seen[k], origin)

\* C6: every entry of the output has a non-empty name, and a visited
\* aggregate for which no name is resolved has no entry.
C6_NamesNonEmpty ==
    /\ \A i \in DOMAIN types : types[i].name # ""
    /\ \A k \in DOMAIN seen :
          ( /\ get_kind(resolve(seen[k])) \in Aggregates
            /\ get_name(resolve(seen[k]), ParentOf(seen[k])) = None )
          => ~InSeq(seen[k], origin)

\* C6 witness: an unnamed aggregate of the target file was visited and the
\* walk went on to its end.
C6_Witness ==
    /\ pc = "done"
    /\ \E k \in DOMAIN seen :
          /\ get_kind(resolve(seen[k])) \in Aggregates
          /\ is_in_main_file(resolve(seen[k]))
          /\ get_name(resolve(seen[k]), ParentOf(seen[k])) = None

\* C7: the extraction aborts only at a type alias without a name or at an
\* aggregate with a field or enumerator constant without a name; an unnamed
\* struct, enum or union never makes it abort.
C7_OnlyContractViolationsAbort ==
    pc = "panicked" =>
        LET e == resolve(Head(pending)[1])
        IN  \/ get_kind(e) = "TypedefDecl" /\ get_name_of(e) = None
            \/ \E i \in DOMAIN get_children(e) :
                  /\ get_kind(get_children(e)[i]) \in {"FieldDecl", "EnumConstantDecl"}
                  /\ get_name_of(get_children(e)[i]) = None

\* C8: after an abort nothing has been written to the output, and what is
\* written is written once, after the whole walk, and is the serialisation
\* of all the entries.
C8_NoPartialOutput ==
    /\ pc = "panicked" => stdout = <<>>
    /\ stdout # <<>> => /\ pc = "done"
                        /\ pending = <<>>
                        /\ stdout = <<to_string(types)>>

\* C8 witness: the walk aborted after entries had been pushed, and the
\* output is empty.
C8_Witness ==
    /\ pc = "panicked"
    /\ types # <<>>
    /\ stdout = <<>>

\* C9: the fields of a Structure or Union entry are exactly the immediate
\* field declarations of its node, in order; children of other kinds give no
\* Field.
C9_FieldsAreFieldDecls ==
    \A i \in DOMAIN types :
        types[i].tag \in {"StructType", "UnionType"}
        => types[i].fields = FieldDeclsOf(resolve(origin[i]))

\* C10: the value recorded for an enumerator constant is the signed reading
\* of the bits the provider reports: it lies in the signed range, agrees with
\* the bits modulo 2^ValueBits, and is negative when the high bit is set.
C10_SignedValue ==
    \A i \in DOMAIN types :
        types[i].tag = "EnumType"
        => \A k \in DOMAIN types[i].fields :
              LET c == get_children(resolve(origin[i]))[k]
                  v == types[i].fields[k].value
              IN  /\ v >= -Pow2(ValueBits - 1)
                  /\ v < Pow2(ValueBits - 1)
                  /\ (v - ast[c].raw) % Pow2(ValueBits) = 0
                  /\ ast[c].raw >= Pow2(ValueBits - 1) => v = ast[c].raw - Pow2(ValueBits)

\* C10 witness: an Enumeration entry holds a constant whose bits have the
\* high bit set, recorded as a negative value.
C10_Witness ==
    \E i \in DOMAIN types :
        /\ types[i].tag = "EnumType"
        /\ \E k \in DOMAIN types[i].fields :
              /\ ast[get_children(resolve(origin[i]))[k]].raw >= Pow2(ValueBits - 1)
              /\ types[i].fields[k].value < 0
====
